---- MODULE Spec2Model ----
(***************************************************************************)
(* AI Paper Feed (src/app.js): the feed acquisition pipeline, the filter   *)
(* pipeline and the bookmark store of the arXiv reader.                    *)
(*                                                                         *)
(* A JavaScript string is a sequence of one-character strings, so that     *)
(* the regular expressions of the source are modelled by what they match.  *)
(***************************************************************************)
EXTENDS Integers, Sequences, FiniteSets, TLC

VARIABLES
    papers,            \* state.papers
    filteredPapers,    \* state.filteredPapers
    bookmarks,         \* state.bookmarks (a JavaScript value)
    activeCategories,  \* state.activeCategories (a Set: insertion ordered)
    searchQuery,       \* state.searchQuery
    quickFilter,       \* state.quickFilter
    dateRange,         \* state.dateRange
    isLoading,         \* state.isLoading
    error,             \* state.error
    storage,           \* localStorage slot CONFIG.storageKey
    phase,             \* "loading" before DOMContentLoaded, then "ready" or "crashed"
    runs,              \* the fetchAllFeeds invocations awaiting Promise.all
    settled,           \* history: the invocation whose Promise.all resolved last
    call,              \* a call of a pure function under test, or the last
                       \* bookmark operation
    ret,               \* and what it returned
    relay              \* the relay process (src/server.js)

vars == <<papers, filteredPapers, bookmarks, activeCategories, searchQuery,
          quickFilter, dateRange, isLoading, error, storage, phase, runs,
          settled, call, ret, relay>>

appVars == <<papers, filteredPapers, bookmarks, activeCategories, searchQuery,
             quickFilter, dateRange, isLoading, error, storage, phase, runs,
             settled, relay>>

(***************************************************************************)
(* Bounds of the model.                                                    *)
(***************************************************************************)
NumFeeds == 2      \* how many entries of CONFIG.feeds are modelled
NumProxies == 2    \* how many entries of CONFIG.corsProxies are modelled
MaxInFlight == 2   \* how many fetchAllFeeds invocations may overlap
MaxItems == 2      \* items (or entries) per document given to a parser
MaxBookmarks == 2  \* bookmarks the user keeps at a time
MaxRequests == 2   \* requests the relay receives

(***************************************************************************)
(* Strings                                                                 *)
(***************************************************************************)
Whitespace == {" ", "\t", "\n"}

\* s.substring(i-1) in 1-based positions: the suffix of s starting at i
From(s, i) == IF i > Len(s) THEN << >> ELSE SubSeq(s, i, Len(s))

\* the first i-1 characters of s
Before(s, i) == IF i <= 1 THEN << >> ELSE SubSeq(s, 1, i - 1)

StartsWithAt(s, p, i) ==
    /\ i >= 1
    /\ i + Len(p) - 1 <= Len(s)
    /\ \A k \in 1..Len(p) : s[i + k - 1] = p[k]

\* 1-based position of the first occurrence of p in s at or after i, 0 if none
RECURSIVE IndexFrom(_, _, _)
IndexFrom(s, p, i) ==
    IF i + Len(p) - 1 > Len(s) THEN 0
    ELSE IF StartsWithAt(s, p, i) THEN i
    ELSE IndexFrom(s, p, i + 1)

IndexOf(s, p) == IndexFrom(s, p, 1)

\* String.prototype.includes
Includes(s, p) == IndexOf(s, p) > 0

\* String.prototype.replace with a string pattern: the first occurrence only
ReplaceFirst(s, p, r) ==
    LET i == IndexOf(s, p) IN
    IF i = 0 \/ p = << >> THEN s
    ELSE Before(s, i) \o r \o From(s, i + Len(p))

\* String.prototype.replace with a global literal pattern
RECURSIVE ReplaceAll(_, _, _)
ReplaceAll(s, p, r) ==
    LET i == IndexOf(s, p) IN
    IF i = 0 \/ p = << >> THEN s
    ELSE Before(s, i) \o r \o ReplaceAll(From(s, i + Len(p)), p, r)

\* .replace(/<[^>]*>/g, ''): a '<' up to the next '>' is dropped
RECURSIVE StripTags(_)
StripTags(s) ==
    LET i == IndexOf(s, <<"<">>) IN
    IF i = 0 THEN s
    ELSE LET j == IndexFrom(s, <<">">>, i + 1) IN
         IF j = 0 THEN s
         ELSE Before(s, i) \o StripTags(From(s, j + 1))

\* .replace(/\s+/g, ' ')
RECURSIVE CollapseWs(_)
CollapseWs(s) ==
    IF s = << >> THEN << >>
    ELSE IF Head(s) \in Whitespace
         THEN IF Len(s) > 1 /\ s[2] \in Whitespace
              THEN CollapseWs(Tail(s))
              ELSE <<" ">> \o CollapseWs(Tail(s))
         ELSE <<Head(s)>> \o CollapseWs(Tail(s))

RECURSIVE TrimStart(_)
TrimStart(s) ==
    IF s # << >> /\ Head(s) \in Whitespace THEN TrimStart(Tail(s)) ELSE s

RECURSIVE TrimEnd(_)
TrimEnd(s) ==
    IF s # << >> /\ s[Len(s)] \in Whitespace
    THEN TrimEnd(SubSeq(s, 1, Len(s) - 1))
    ELSE s

\* String.prototype.trim
Trim(s) == TrimEnd(TrimStart(s))

\* the longest prefix of s without the character c
RECURSIVE TakeUntil(_, _)
TakeUntil(s, c) ==
    IF s = << >> \/ Head(s) = c THEN << >>
    ELSE <<Head(s)>> \o TakeUntil(Tail(s), c)

\* String(n) for a natural number
DigitChar(d) == <<"0", "1", "2", "3", "4", "5", "6", "7", "8", "9">>[d + 1]

RECURSIVE NumToStr(_)
NumToStr(n) ==
    IF n < 10 THEN <<DigitChar(n)>>
    ELSE NumToStr(n \div 10) \o <<DigitChar(n % 10)>>

(***************************************************************************)
(* Utilities (src/app.js 142-156)                                          *)
(***************************************************************************)
ABS == <<"a", "b", "s", "/">>

\* link.match(/abs\/([^\?]+)/): the leftmost "abs/" followed by at least one
\* character other than '?'; the capture runs up to the next '?'
RECURSIVE MatchAbs(_, _)
MatchAbs(s, i) ==
    LET k == IndexFrom(s, ABS, i) IN
    IF k = 0 THEN << >>
    ELSE IF k + 4 <= Len(s) /\ s[k + 4] # "?"
         THEN TakeUntil(From(s, k + 4), "?")
         ELSE MatchAbs(s, k + 1)

extractArxivId(link) == MatchAbs(link, 1)

cleanText(text) ==
    LET noTags == StripTags(text)
        lt == ReplaceAll(noTags, <<"&", "l", "t", ";">>, <<"<">>)
        gt == ReplaceAll(lt, <<"&", "g", "t", ";">>, <<">">>)
        amp == ReplaceAll(gt, <<"&", "a", "m", "p", ";">>, <<"&">>)
    IN Trim(CollapseWs(amp))

(***************************************************************************)
(* Format parsers (src/app.js 241-275, 318-353).  A document is given by   *)
(* the textContent of the fields of its <item> or <entry> elements; a      *)
(* field whose element is missing reads as the empty string, as            *)
(* `?.textContent || ''` makes it.  A document DOMParser cannot parse has  *)
(* no items and no entries.  fetchedAt is not modelled: nothing reads it.  *)
(***************************************************************************)

\* title.replace(/^\([^)]+\)\s*/, ''): a leading "(...)" with at least one
\* character between the parentheses, and the whitespace after it
stripCategoryPrefix(title) ==
    IF title = << >> \/ Head(title) # "(" THEN title
    ELSE LET j == IndexFrom(title, <<")">>, 2) IN
         IF j < 3 THEN title
         ELSE TrimStart(From(title, j + 1))

\* the record parseFeed pushes for the item at position index (0-based)
feedRecord(item, index, categoryId) ==
    LET title == cleanText(item.title)
        link == item.link
        creator == IF item.creator # << >> THEN item.creator ELSE item.dcCreator
        id == extractArxivId(link)
    IN [id |-> IF id # << >> THEN id
               ELSE categoryId \o <<"-">> \o NumToStr(index),
        title |-> stripCategoryPrefix(title),
        link |-> link,
        abstract |-> cleanText(item.description),
        authors |-> cleanText(creator),
        category |-> categoryId]

\* if (title && link)
feedItemKept(item) == cleanText(item.title) # << >> /\ item.link # << >>

RECURSIVE parseFeedFrom(_, _, _)
parseFeedFrom(items, index, categoryId) ==
    IF index >= Len(items) THEN << >>
    ELSE (IF feedItemKept(items[index + 1])
          THEN <<feedRecord(items[index + 1], index, categoryId)>>
          ELSE << >>)
         \o parseFeedFrom(items, index + 1, categoryId)

parseFeed(doc, categoryId) == parseFeedFrom(doc.items, 0, categoryId)

\* id.split('/').pop()
RECURSIVE LastSegment(_)
LastSegment(s) ==
    LET i == IndexOf(s, <<"/">>) IN
    IF i = 0 THEN s ELSE LastSegment(From(s, i + 1))

\* Array.prototype.join(', ')
RECURSIVE JoinComma(_)
JoinComma(names) ==
    IF names = << >> THEN << >>
    ELSE IF Len(names) = 1 THEN names[1]
    ELSE names[1] \o <<",", " ">> \o JoinComma(Tail(names))

HTTP == <<"h", "t", "t", "p", ":", "/", "/">>
HTTPS == <<"h", "t", "t", "p", "s", ":", "/", "/">>

\* id.match(/abs\/([^\?]+)/)?.[1] || id.split('/').pop()
entryArxivId(id) ==
    IF extractArxivId(id) # << >> THEN extractArxivId(id) ELSE LastSegment(id)

\* the record parseArxivAPIResponse pushes for an entry; the local `link`
\* (pdf link, else alternate link, else id) is computed and never used
apiRecord(entry, categoryId) ==
    LET title == cleanText(entry.title)
        id == entry.id
        link == IF entry.pdfHref # << >> THEN entry.pdfHref
                ELSE IF entry.altHref # << >> THEN entry.altHref
                ELSE id
    IN [id |-> entryArxivId(id),
        title |-> title,
        link |-> ReplaceFirst(id, HTTP, HTTPS),
        abstract |-> cleanText(entry.summary),
        authors |-> JoinComma(entry.authors),
        category |-> categoryId]

\* if (title && arxivId)
apiEntryKept(entry) ==
    cleanText(entry.title) # << >> /\ entryArxivId(entry.id) # << >>

RECURSIVE parseApiFrom(_, _, _)
parseApiFrom(entries, index, categoryId) ==
    IF index >= Len(entries) THEN << >>
    ELSE (IF apiEntryKept(entries[index + 1])
          THEN <<apiRecord(entries[index + 1], categoryId)>>
          ELSE << >>)
         \o parseApiFrom(entries, index + 1, categoryId)

parseArxivAPIResponse(doc, categoryId) == parseApiFrom(doc.entries, 0, categoryId)

(***************************************************************************)
(* Configuration (src/app.js 29-63)                                        *)
(***************************************************************************)
CS_LG == <<"c", "s", ".", "L", "G">>
CS_CL == <<"c", "s", ".", "C", "L">>
CS_AI == <<"c", "s", ".", "A", "I">>
CS_CV == <<"c", "s", ".", "C", "V">>
CS_RO == <<"c", "s", ".", "R", "O">>
CS_IR == <<"c", "s", ".", "I", "R">>
STAT_ML == <<"s", "t", "a", "t", ".", "M", "L">>

\* CONFIG.feeds, by id
ConfigFeeds == <<CS_LG, CS_CL, CS_AI, CS_CV, CS_RO, CS_IR, STAT_ML>>

\* CONFIG.corsProxies, by host
ConfigProxies == <<"localhost:3001", "api.codetabs.com", "corsproxy.io",
                   "api.allorigins.win">>

\* the feeds and the proxies of the model
Feeds == SubSeq(ConfigFeeds, 1, NumFeeds)
CorsProxies == SubSeq(ConfigProxies, 1, NumProxies)

Range(f) == {f[i] : i \in DOMAIN f}

(***************************************************************************)
(* Calls of the parsers on bounded documents                               *)
(***************************************************************************)
GPT == <<"G", "P", "T">>
TAG == <<"(", "c", "s", ")">>

TitleInputs ==
    { << >>,
      <<" ">>,
      GPT,
      TAG,
      TAG \o <<" ">> \o GPT,
      <<"<", "b", ">", "<", "/", "b", ">">>,
      <<"&", "l", "t", ";">> }

LinkInputs ==
    { << >>,
      <<"x">>,
      HTTP \o <<"x", "/">> \o ABS \o <<"1">>,
      HTTPS \o <<"x", "/">> \o ABS \o <<"1", "?", "v">> }

ItemInputs ==
    { [title |-> t, link |-> l, description |-> <<"<", "p", ">", "a">>,
       creator |-> << >>, dcCreator |-> <<"A", "n", "n">>] :
      t \in TitleInputs, l \in LinkInputs }

IdInputs ==
    { << >>,
      <<"/">>,
      <<"1">>,
      HTTP \o <<"x", "/">> \o ABS \o <<"1">> }

EntryInputs ==
    { [title |-> t, id |-> i, summary |-> <<"a", "\n", "b">>,
       authors |-> <<<<"A", "n", "n">>, <<"B", "o">>>>,
       pdfHref |-> p, altHref |-> << >>] :
      t \in {<< >>, GPT, TAG}, i \in IdInputs,
      p \in {<< >>, HTTP \o <<"x", "/", "p", "d", "f", "/", "1">>} }

\* the sequences over S of length at most n
SeqsUpTo(S, n) == UNION {[1..k -> S] : k \in 0..n}

NoRet == [done |-> FALSE, value |-> << >>]
NoCall == [fn |-> "none"]

ParseCalls ==
    { [fn |-> "parseFeed", categoryId |-> CS_LG,
       doc |-> [items |-> items, entries |-> << >>]] :
      items \in SeqsUpTo(ItemInputs, MaxItems) }
    \cup
    { [fn |-> "parseArxivAPIResponse", categoryId |-> CS_LG,
       doc |-> [items |-> << >>, entries |-> entries]] :
      entries \in SeqsUpTo(EntryInputs, MaxItems) }

ParseFeedCall ==
    /\ call.fn = "parseFeed"
    /\ ~ret.done
    /\ ret' = [done |-> TRUE, value |-> parseFeed(call.doc, call.categoryId)]
    /\ UNCHANGED <<appVars, call>>

ParseApiCall ==
    /\ call.fn = "parseArxivAPIResponse"
    /\ ~ret.done
    /\ ret' = [done |-> TRUE,
               value |-> parseArxivAPIResponse(call.doc, call.categoryId)]
    /\ UNCHANGED <<appVars, call>>

(***************************************************************************)
(* Filtering (src/app.js 417-447)                                          *)
(***************************************************************************)
UpperCase == <<"A", "B", "C", "D", "E", "F", "G", "H", "I", "J", "K", "L", "M",
               "N", "O", "P", "Q", "R", "S", "T", "U", "V", "W", "X", "Y", "Z">>
LowerCase == <<"a", "b", "c", "d", "e", "f", "g", "h", "i", "j", "k", "l", "m",
               "n", "o", "p", "q", "r", "s", "t", "u", "v", "w", "x", "y", "z">>

LowerChar(c) ==
    IF \E i \in DOMAIN UpperCase : UpperCase[i] = c
    THEN LowerCase[CHOOSE i \in DOMAIN UpperCase : UpperCase[i] = c]
    ELSE c

\* String.prototype.toLowerCase
toLowerCase(s) == [i \in DOMAIN s |-> LowerChar(s[i])]

\* QUICK_FILTERS; the key 'all' maps to null
QuickFilterKeys == {"all", "llm", "transformer", "rag", "diffusion", "reinforcement"}

QUICK_FILTERS(key) ==
    IF key = "llm" THEN
        << <<"l", "l", "m">>,
           <<"l", "a", "n", "g", "u", "a", "g", "e", " ", "m", "o", "d", "e", "l">>,
           <<"g", "p", "t">>,
           <<"b", "e", "r", "t">>,
           <<"t", "r", "a", "n", "s", "f", "o", "r", "m", "e", "r">>,
           <<"c", "h", "a", "t", "g", "p", "t">>,
           <<"l", "l", "a", "m", "a">>,
           <<"g", "e", "m", "i", "n", "i">> >>
    ELSE IF key = "transformer" THEN
        << <<"t", "r", "a", "n", "s", "f", "o", "r", "m", "e", "r">>,
           <<"a", "t", "t", "e", "n", "t", "i", "o", "n">>,
           <<"s", "e", "l", "f", "-", "a", "t", "t", "e", "n", "t", "i", "o", "n">>,
           <<"m", "u", "l", "t", "i", "-", "h", "e", "a", "d">> >>
    ELSE IF key = "rag" THEN
        << <<"r", "e", "t", "r", "i", "e", "v", "a", "l">>,
           <<"r", "a", "g">>,
           <<"r", "e", "t", "r", "i", "e", "v", "a", "l", "-", "a", "u", "g", "m", "e", "n", "t", "e", "d">>,
           <<"d", "e", "n", "s", "e", " ", "r", "e", "t", "r", "i", "e", "v", "a", "l">>,
           <<"k", "n", "o", "w", "l", "e", "d", "g", "e", " ", "b", "a", "s", "e">> >>
    ELSE IF key = "diffusion" THEN
        << <<"d", "i", "f", "f", "u", "s", "i", "o", "n">>,
           <<"s", "t", "a", "b", "l", "e", " ", "d", "i", "f", "f", "u", "s", "i", "o", "n">>,
           <<"d", "d", "p", "m">>,
           <<"s", "c", "o", "r", "e", "-", "b", "a", "s", "e", "d">>,
           <<"d", "e", "n", "o", "i", "s", "i", "n", "g">> >>
    ELSE IF key = "reinforcement" THEN
        << <<"r", "e", "i", "n", "f", "o", "r", "c", "e", "m", "e", "n", "t", " ", "l", "e", "a", "r", "n", "i", "n", "g">>,
           <<"r", "l">>,
           <<"p", "o", "l", "i", "c", "y", " ", "g", "r", "a", "d", "i", "e", "n", "t">>,
           <<"q", "-", "l", "e", "a", "r", "n", "i", "n", "g">>,
           <<"p", "p", "o">>,
           <<"r", "l", "h", "f">> >>
    ELSE << >>

matchesSearch(p, query) ==
    \/ Includes(toLowerCase(p.title), query)
    \/ Includes(toLowerCase(p.abstract), query)
    \/ Includes(toLowerCase(p.authors), query)

\* mutant: the text is compared as written, without toLowerCase
matchesQuickCaseSensitive(p, keywords) ==
    LET text == p.title \o <<" ">> \o p.abstract IN
    \E k \in DOMAIN keywords : Includes(text, keywords[k])

matchesQuick(p, keywords) ==
    LET text == toLowerCase(p.title \o <<" ">> \o p.abstract) IN
    \E k \in DOMAIN keywords : Includes(text, keywords[k])

\* mutant: with no category checked the category stage is skipped
applyFiltersEmptyShowsAll(all, categories, query, quick) ==
    LET inCategory(p) == categories = << >> \/ p.category \in Range(categories)
        byCategory == SelectSeq(all, inCategory)
        inSearch(p) == matchesSearch(p, toLowerCase(query))
        bySearch == IF query # << >> THEN SelectSeq(byCategory, inSearch)
                    ELSE byCategory
        inQuick(p) == matchesQuick(p, QUICK_FILTERS(quick))
    IN IF quick # "all" /\ quick \in QuickFilterKeys
       THEN SelectSeq(bySearch, inQuick)
       ELSE bySearch

\* the value applyFilters assigns to state.filteredPapers
applyFilters(all, categories, query, quick) ==
    LET inCategory(p) == p.category \in Range(categories)
        byCategory == SelectSeq(all, inCategory)
        inSearch(p) == matchesSearch(p, toLowerCase(query))
        bySearch == IF query # << >> THEN SelectSeq(byCategory, inSearch)
                    ELSE byCategory
        inQuick(p) == matchesQuick(p, QUICK_FILTERS(quick))
    IN IF quick # "all" /\ quick \in QuickFilterKeys
       THEN SelectSeq(bySearch, inQuick)
       ELSE bySearch

\* the fields of state that applyFilters can reach
State ==
    [papers |-> papers, filteredPapers |-> filteredPapers, bookmarks |-> bookmarks,
     activeCategories |-> activeCategories, searchQuery |-> searchQuery,
     quickFilter |-> quickFilter, dateRange |-> dateRange]

\* mutant: the category stage filters state.papers in place
applyFiltersOnInPlace(st) ==
    LET kept == applyFilters(st.papers, st.activeCategories, << >>, "all") IN
    [st EXCEPT !.papers = kept,
               !.filteredPapers = applyFilters(kept, st.activeCategories,
                                               st.searchQuery, st.quickFilter)]

\* applyFilters() as a whole: state before, state after
applyFiltersOn(st) ==
    [st EXCEPT !.filteredPapers = applyFilters(st.papers, st.activeCategories,
                                               st.searchQuery, st.quickFilter)]

\* the handler leaves state as st
SetState(st) ==
    /\ papers' = st.papers
    /\ filteredPapers' = st.filteredPapers
    /\ bookmarks' = st.bookmarks
    /\ activeCategories' = st.activeCategories
    /\ searchQuery' = st.searchQuery
    /\ quickFilter' = st.quickFilter
    /\ dateRange' = st.dateRange

\* the debounced search input (lines 605-610): value is what the field holds
\* when the timer fires
SearchInput(value) ==
    /\ phase = "ready"
    /\ SetState(applyFiltersOn([State EXCEPT !.searchQuery = Trim(value)]))
    /\ UNCHANGED <<isLoading, error, storage, phase, runs, settled, call, ret, relay>>

\* the clear button of the search field (lines 613-617)
ClearSearch ==
    /\ phase = "ready"
    /\ SetState(applyFiltersOn([State EXCEPT !.searchQuery = << >>]))
    /\ UNCHANGED <<isLoading, error, storage, phase, runs, settled, call, ret, relay>>

\* a quick filter chip (lines 620-627): key is its data-filter attribute
QuickFilterClick(key) ==
    /\ phase = "ready"
    /\ SetState(applyFiltersOn([State EXCEPT !.quickFilter = key]))
    /\ UNCHANGED <<isLoading, error, storage, phase, runs, settled, call, ret, relay>>

(***************************************************************************)
(* Storage (src/app.js 162-182).  A JavaScript value is [type, items]:     *)
(* an array with its items, null, a number, a plain object, or the object  *)
(* {"length": 0}.                                                          *)
(***************************************************************************)
JsArray(items) == [type |-> "array", items |-> items]
JsNull == [type |-> "null", items |-> << >>]
JsNumber == [type |-> "number", items |-> << >>]
JsObject == [type |-> "object", items |-> << >>]
JsObjectLength0 == [type |-> "objectLength0", items |-> << >>]

\* the slot: absent, text JSON.parse rejects, or the JSON text of a value
SlotAbsent == [kind |-> "absent", value |-> JsNull]
SlotGarbage == [kind |-> "garbage", value |-> JsNull]
SlotJson(v) == [kind |-> "json", value |-> v]

\* the value loadBookmarks assigns to state.bookmarks
loadBookmarks(slot) ==
    IF slot.kind = "json" THEN slot.value ELSE JsArray(<< >>)

\* updateBookmarkCount and renderBookmarks read .length and call .map
initThrows(b) == b.type \notin {"array", "objectLength0"}

\* renderPapers: createPaperCard calls isBookmarked, which calls
\* state.bookmarks.some, for every displayed paper
renderPapersThrows(b, filtered) == filtered # << >> /\ b.type # "array"

(***************************************************************************)
(* Transport chain (src/app.js 216-239, 284-315).  What the proxies answer *)
(* is given by resp, one outcome per proxy: the request rejects, the       *)
(* status is not ok, reading the body rejects, or a document arrives.      *)
(* The chain touches no shared state, so it is evaluated in one step.      *)
(***************************************************************************)
EmptyDoc == [items |-> << >>, entries |-> << >>]

Reject == [kind |-> "reject", doc |-> EmptyDoc]
NotOk == [kind |-> "notok", doc |-> EmptyDoc]
TextFail == [kind |-> "textfail", doc |-> EmptyDoc]
Ok(doc) == [kind |-> "ok", doc |-> doc]

RECURSIVE fetchFeedFrom(_, _, _, _)
fetchFeedFrom(feed, resp, i, requested) ==
    IF i > Len(CorsProxies)
    THEN [papers |-> << >>, requested |-> requested, raised |-> FALSE]
    ELSE LET req == Append(requested, CorsProxies[i])
             next == fetchFeedFrom(feed, resp, i + 1, req)
         IN IF resp[i].kind = "reject" THEN next          \* catch
            ELSE IF resp[i].kind = "notok" THEN next      \* continue
            ELSE IF resp[i].kind = "textfail" THEN next   \* catch
            ELSE LET parsed == parseFeed(resp[i].doc, feed) IN
                 IF Len(parsed) > 0
                 THEN [papers |-> parsed, requested |-> req, raised |-> FALSE]
                 ELSE next

\* mutant: a body without records is returned instead of being skipped
RECURSIVE fetchFeedFromAnyBody(_, _, _, _)
fetchFeedFromAnyBody(feed, resp, i, requested) ==
    IF i > Len(CorsProxies)
    THEN [papers |-> << >>, requested |-> requested, raised |-> FALSE]
    ELSE LET req == Append(requested, CorsProxies[i])
             next == fetchFeedFromAnyBody(feed, resp, i + 1, req)
         IN IF resp[i].kind \in {"reject", "notok", "textfail"} THEN next
            ELSE [papers |-> parseFeed(resp[i].doc, feed), requested |-> req,
                  raised |-> FALSE]

fetchFeedAnyBody(feed, resp) == fetchFeedFromAnyBody(feed, resp, 1, << >>)

\* mutant: the awaits are outside the try block, a rejection leaves the chain
RECURSIVE fetchFeedFromUncaught(_, _, _, _)
fetchFeedFromUncaught(feed, resp, i, requested) ==
    IF i > Len(CorsProxies)
    THEN [papers |-> << >>, requested |-> requested, raised |-> FALSE]
    ELSE LET req == Append(requested, CorsProxies[i])
             next == fetchFeedFromUncaught(feed, resp, i + 1, req)
         IN IF resp[i].kind \in {"reject", "textfail"}
            THEN [papers |-> << >>, requested |-> req, raised |-> TRUE]
            ELSE IF resp[i].kind = "notok" THEN next
            ELSE LET parsed == parseFeed(resp[i].doc, feed) IN
                 IF Len(parsed) > 0
                 THEN [papers |-> parsed, requested |-> req, raised |-> FALSE]
                 ELSE next

fetchFeedUncaught(feed, resp) == fetchFeedFromUncaught(feed, resp, 1, << >>)

fetchFeed(feed, resp) == fetchFeedFrom(feed, resp, 1, << >>)

RECURSIVE fetchApiFrom(_, _, _, _)
fetchApiFrom(category, resp, i, requested) ==
    IF i > Len(CorsProxies)
    THEN [papers |-> << >>, requested |-> requested, raised |-> FALSE]
    ELSE LET req == Append(requested, CorsProxies[i])
             next == fetchApiFrom(category, resp, i + 1, req)
         IN IF resp[i].kind = "reject" THEN next
            ELSE IF resp[i].kind = "notok" THEN next
            ELSE IF resp[i].kind = "textfail" THEN next
            ELSE LET parsed == parseArxivAPIResponse(resp[i].doc, category) IN
                 IF Len(parsed) > 0
                 THEN [papers |-> parsed, requested |-> req, raised |-> FALSE]
                 ELSE next

\* daysBack only enters the query URL
fetchFromArxivAPI(category, daysBack, resp) == fetchApiFrom(category, resp, 1, << >>)

(***************************************************************************)
(* The documents the proxies may return                                    *)
(***************************************************************************)
RssDoc ==
    [items |-> << [title |-> TAG \o <<" ">> \o GPT,
                   link |-> HTTP \o <<"x", "/">> \o ABS \o <<"1">>,
                   description |-> <<"<", "p", ">", "a">>,
                   creator |-> << >>, dcCreator |-> <<"A", "n", "n">>],
                  [title |-> <<"R", "A", "G">>,
                   link |-> <<"x">>,
                   description |-> << >>,
                   creator |-> <<"B", "o">>, dcCreator |-> << >>] >>,
     entries |-> << >>]

AtomDoc ==
    [items |-> << >>,
     entries |-> << [title |-> GPT,
                     id |-> HTTP \o <<"x", "/">> \o ABS \o <<"1">>,
                     summary |-> <<"a", "\n", "b">>,
                     authors |-> <<<<"A", "n", "n">>, <<"B", "o">>>>,
                     pdfHref |-> HTTP \o <<"x", "/", "p", "d", "f", "/", "1">>,
                     altHref |-> << >>] >>]

FeedOutcomes == {Reject, NotOk, TextFail, Ok(EmptyDoc), Ok(RssDoc)}
ApiOutcomes == {Reject, NotOk, TextFail, Ok(EmptyDoc), Ok(AtomDoc)}

ChainCalls ==
    { [fn |-> "fetchFeed", target |-> f, daysBack |-> 0, resp |-> r] :
      f \in Range(Feeds), r \in [1..NumProxies -> FeedOutcomes] }
    \cup
    { [fn |-> "fetchFromArxivAPI", target |-> c, daysBack |-> d, resp |-> r] :
      c \in Range(Feeds), d \in {7, 30}, r \in [1..NumProxies -> ApiOutcomes] }

FetchFeedCall ==
    /\ call.fn = "fetchFeed"
    /\ ~ret.done
    /\ ret' = [done |-> TRUE, value |-> fetchFeed(call.target, call.resp)]
    /\ UNCHANGED <<appVars, call>>

FetchApiCall ==
    /\ call.fn = "fetchFromArxivAPI"
    /\ ~ret.done
    /\ ret' = [done |-> TRUE,
               value |-> fetchFromArxivAPI(call.target, call.daysBack, call.resp)]
    /\ UNCHANGED <<appVars, call>>

(***************************************************************************)
(* Aggregation (src/app.js 355-411)                                        *)
(***************************************************************************)
NULL == "null"
\* the messages of lines 394-398 and 408 (the weekend message abridged)
WeekendMsg == "No new papers today. arXiv does not publish on weekends"
UnavailableMsg == "No papers found. The feeds may be temporarily unavailable."
DateRangeMsg == "No papers found for this date range. Try different categories."
FailedMsg == "Failed to load papers. Please try again."

DateRanges == {"today", "week", "month"}
Days == 0..6    \* Date.prototype.getDay

\* results.flat()
RECURSIVE Flat(_)
Flat(results) ==
    IF results = << >> THEN << >> ELSE Head(results) \o Flat(Tail(results))

\* the loop over allPapers with seenIds: the first record of each id is kept
RECURSIVE dedupeFrom(_, _)
dedupeFrom(allPapers, seenIds) ==
    IF allPapers = << >> THEN << >>
    ELSE IF Head(allPapers).id \in seenIds
         THEN dedupeFrom(Tail(allPapers), seenIds)
         ELSE <<Head(allPapers)>>
              \o dedupeFrom(Tail(allPapers), seenIds \cup {Head(allPapers).id})

\* mutant: the last record of each id is kept instead of the first
RECURSIVE keepLast(_)
keepLast(allPapers) ==
    IF allPapers = << >> THEN << >>
    ELSE IF \E k \in 2..Len(allPapers) : allPapers[k].id = Head(allPapers).id
         THEN keepLast(Tail(allPapers))
         ELSE <<Head(allPapers)>> \o keepLast(Tail(allPapers))

uniquePapersKeepLast(results) == keepLast(Flat(results))

uniquePapers(results) == dedupeFrom(Flat(results), {})

\* mutant: only Saturday counts as the weekend
emptyMessageSaturdayOnly(range, day) ==
    IF range = "today"
    THEN IF day = 6 THEN WeekendMsg ELSE UnavailableMsg
    ELSE DateRangeMsg

\* the message for an empty collection (lines 390-400)
emptyMessage(range, day) ==
    IF range = "today"
    THEN IF day = 0 \/ day = 6 THEN WeekendMsg ELSE UnavailableMsg
    ELSE DateRangeMsg

\* whether the cycle reads new Date().getDay()
readsDay(results, range) == uniquePapers(results) = << >> /\ range = "today"

\* mutant: the snapshot mode requests the active categories only
sourcesOfActiveOnly(range, categories) == categories

\* the categories a cycle requests (lines 363-373)
sourcesOf(range, categories) == IF range = "today" THEN Feeds ELSE categories

\* mutant: a source without records makes the whole cycle fail
finishFailFast(results, range, err, day) ==
    LET unique == uniquePapers(results)
        failed == \E k \in DOMAIN results : results[k] = << >>
        message == IF Len(unique) = 0 THEN emptyMessage(range, day[1]) ELSE err
        filtered == applyFilters(unique, activeCategories, searchQuery, quickFilter)
    IN [papers |-> IF failed THEN papers ELSE unique,
        isLoading |-> FALSE,
        error |-> IF failed /\ Len(unique) > 0 THEN FailedMsg ELSE message,
        filteredPapers |-> IF failed THEN filteredPapers ELSE filtered,
        raised |-> failed /\ Len(unique) > 0]

\* mutant: the new records are appended to the collection held before
finishAppend(results, range, err, day) ==
    LET unique == papers \o uniquePapers(results)
        message == IF Len(unique) = 0 THEN emptyMessage(range, day[1]) ELSE err
        filtered == applyFilters(unique, activeCategories, searchQuery, quickFilter)
        raised == renderPapersThrows(bookmarks, filtered)
    IN [papers |-> unique,
        isLoading |-> FALSE,
        error |-> IF raised THEN FailedMsg ELSE message,
        filteredPapers |-> filtered,
        raised |-> raised]

\* mutant: the cycle does not call applyFilters when it ends
finishNoFilter(results, range, err, day) ==
    LET unique == uniquePapers(results)
        message == IF Len(unique) = 0 THEN emptyMessage(range, day[1]) ELSE err
    IN [papers |-> unique,
        isLoading |-> FALSE,
        error |-> message,
        filteredPapers |-> filteredPapers,
        raised |-> FALSE]

\* mutant: the catch block does not reset isLoading
finishLoadingOnRaise(results, range, err, day) ==
    LET unique == uniquePapers(results)
        message == IF Len(unique) = 0 THEN emptyMessage(range, day[1]) ELSE err
        filtered == applyFilters(unique, activeCategories, searchQuery, quickFilter)
        raised == renderPapersThrows(bookmarks, filtered)
    IN [papers |-> unique,
        isLoading |-> raised,
        error |-> IF raised THEN FailedMsg ELSE message,
        filteredPapers |-> filtered,
        raised |-> raised]

\* What fetchAllFeeds does once Promise.all has resolved (lines 375-410):
\* range and err are state.dateRange and state.error at that moment, day is
\* a one-element sequence with the day read, or empty when none is read.
finish(results, range, err, day) ==
    LET unique == uniquePapers(results)
        message == IF Len(unique) = 0 THEN emptyMessage(range, day[1]) ELSE err
        filtered == applyFilters(unique, activeCategories, searchQuery, quickFilter)
        raised == renderPapersThrows(bookmarks, filtered)
    IN [papers |-> unique,
        isLoading |-> FALSE,
        error |-> IF raised THEN FailedMsg ELSE message,
        filteredPapers |-> filtered,
        raised |-> raised]

NoRun == [mode |-> "none", sources |-> << >>, results |-> << >>, day |-> << >>,
          raised |-> FALSE]

DaysRead(results, range) ==
    IF readsDay(results, range) THEN {<<d>> : d \in Days} ELSE {<< >>}

\* the cycle of run, with these results, ends
Complete(run, results, range, err) ==
    \E day \in DaysRead(results, range) :
        LET fin == finish(results, range, err, day) IN
        /\ papers' = fin.papers
        /\ isLoading' = fin.isLoading
        /\ error' = fin.error
        /\ filteredPapers' = fin.filteredPapers
        /\ settled' = [mode |-> run.mode, sources |-> run.sources,
                       results |-> results, day |-> day, raised |-> fin.raised]

\* fetchAllFeeds up to its await; with no category to request, Promise.all
\* resolves at once and the cycle ends before any other handler runs
StartRun(range) ==
    LET sources == sourcesOf(range, activeCategories)
        run == [mode |-> range, sources |-> sources,
                done |-> [i \in DOMAIN sources |-> FALSE],
                results |-> [i \in DOMAIN sources |-> << >>]]
    IN IF sources = << >>
       THEN /\ Complete(run, << >>, range, NULL)
            /\ runs' = runs
       ELSE /\ isLoading' = TRUE
            /\ error' = NULL
            /\ runs' = Append(runs, run)
            /\ UNCHANGED <<papers, filteredPapers, settled>>

\* contents of the slot when the page loads
Slots == {SlotAbsent, SlotJson(JsNull), SlotJson(JsNumber), SlotJson(JsObject),
          SlotJson(JsObjectLength0)}

\* the relay process after server.listen: serving, nothing received yet
RelayStarted == [alive |-> TRUE, requests |-> << >>, outbound |-> << >>]

\* the page before DOMContentLoaded; the relay runs next to it
InitApp ==
    /\ papers = << >>
    /\ filteredPapers = << >>
    /\ bookmarks = JsArray(<< >>)
    /\ activeCategories = Feeds
    /\ searchQuery = << >>
    /\ quickFilter = "all"
    /\ dateRange = "today"
    /\ isLoading = TRUE
    /\ error = NULL
    /\ phase = "loading"
    /\ runs = << >>
    /\ settled = NoRun
    /\ relay = RelayStarted

\* DOMContentLoaded: init() (lines 667-673)
init ==
    /\ phase = "loading"
    /\ bookmarks' = loadBookmarks(storage)
    /\ IF initThrows(bookmarks')
       THEN /\ phase' = "crashed"
            /\ UNCHANGED <<papers, filteredPapers, isLoading, error, runs, settled>>
       ELSE /\ phase' = "ready"
            /\ StartRun(dateRange)
    /\ UNCHANGED <<activeCategories, searchQuery, quickFilter, dateRange, storage,
                   call, ret, relay>>

\* the refresh button (lines 640-642)
Refresh ==
    /\ phase = "ready"
    /\ Len(runs) < MaxInFlight
    /\ StartRun(dateRange)
    /\ UNCHANGED <<bookmarks, activeCategories, searchQuery, quickFilter, dateRange,
                   storage, phase, call, ret, relay>>

\* a date range radio button (lines 597-602)
DateRangeChange(value) ==
    /\ phase = "ready"
    /\ Len(runs) < MaxInFlight
    /\ dateRange' = value
    /\ StartRun(value)
    /\ UNCHANGED <<bookmarks, activeCategories, searchQuery, quickFilter, storage,
                   phase, call, ret, relay>>

\* Set.prototype.add and delete: a Set iterates in insertion order
setAdd(set, x) == IF x \in Range(set) THEN set ELSE Append(set, x)
setDelete(set, x) == SelectSeq(set, LAMBDA y : y # x)

\* a category checkbox (lines 584-594)
CategoryChange(category, checked) ==
    /\ phase = "ready"
    /\ activeCategories' = IF checked THEN setAdd(activeCategories, category)
                           ELSE setDelete(activeCategories, category)
    /\ filteredPapers' = applyFilters(papers, activeCategories', searchQuery,
                                      quickFilter)
    /\ UNCHANGED <<papers, bookmarks, searchQuery, quickFilter, dateRange,
                   isLoading, error, storage, phase, runs, settled, call, ret, relay>>

RemoveAt(s, i) == SubSeq(s, 1, i - 1) \o SubSeq(s, i + 1, Len(s))

\* what a chain can return for a source, over every vector of proxy outcomes
feedResults ==
    [f \in Range(Feeds) |->
        {fetchFeed(f, resp).papers : resp \in [1..NumProxies -> FeedOutcomes]}]

apiResults ==
    [c \in Range(Feeds) |->
        [d \in {7, 30} |->
            {fetchFromArxivAPI(c, d, resp).papers :
                resp \in [1..NumProxies -> ApiOutcomes]}]]

chainResults(mode, source) ==
    IF mode = "today" THEN feedResults[source]
    ELSE apiResults[source][IF mode = "week" THEN 7 ELSE 30]

\* mutant: a cycle that ends drops the bookmarks of papers it did not find
SettlePrunes(r, i) ==
    /\ r \in DOMAIN runs
    /\ i \in DOMAIN runs[r].sources
    /\ ~runs[r].done[i]
    /\ \E got \in chainResults(runs[r].mode, runs[r].sources[i]) :
        LET run == runs[r]
            after == [run EXCEPT !.done[i] = TRUE, !.results[i] = got]
        IN IF \A k \in DOMAIN after.done : after.done[k]
           THEN /\ Complete(after, after.results, dateRange, error)
                /\ runs' = RemoveAt(runs, r)
                /\ bookmarks' =
                     [bookmarks EXCEPT !.items =
                        SelectSeq(bookmarks.items,
                                  LAMBDA x : \E q \in Range(papers') : q.id = x.id)]
           ELSE /\ runs' = [runs EXCEPT ![r] = after]
                /\ UNCHANGED <<papers, filteredPapers, isLoading, error, settled,
                               bookmarks>>
    /\ UNCHANGED <<activeCategories, searchQuery, quickFilter, dateRange,
                   storage, phase, call, ret, relay>>

\* the fetch of source i of cycle r settles; when it is the last one,
\* Promise.all resolves and the cycle ends in the same turn
Settle(r, i) ==
    /\ r \in DOMAIN runs
    /\ i \in DOMAIN runs[r].sources
    /\ ~runs[r].done[i]
    /\ \E got \in chainResults(runs[r].mode, runs[r].sources[i]) :
        LET run == runs[r]
            after == [run EXCEPT !.done[i] = TRUE, !.results[i] = got]
        IN IF \A k \in DOMAIN after.done : after.done[k]
           THEN /\ Complete(after, after.results, dateRange, error)
                /\ runs' = RemoveAt(runs, r)
           ELSE /\ runs' = [runs EXCEPT ![r] = after]
                /\ UNCHANGED <<papers, filteredPapers, isLoading, error, settled>>
    /\ UNCHANGED <<bookmarks, activeCategories, searchQuery, quickFilter, dateRange,
                   storage, phase, call, ret, relay>>

(***************************************************************************)
(* Bookmark operations (src/app.js 172-210).  The JSON text in the slot is *)
(* represented by the value it denotes; JSON.stringify and JSON.parse are  *)
(* inverse on a list of records of strings.                                *)
(***************************************************************************)

\* saveBookmarks: accepted tells whether localStorage.setItem takes the
\* write; when it throws, the catch logs and the slot keeps what it held
saveBookmarks(slot, b, accepted) == IF accepted THEN SlotJson(b) ELSE slot

\* state.bookmarks.findIndex(b => b.id === id), 1-based, 0 when there is none
findIndex(items, id) ==
    IF \E i \in DOMAIN items : items[i].id = id
    THEN CHOOSE i \in DOMAIN items :
            /\ items[i].id = id
            /\ \A j \in 1..(i - 1) : items[j].id # id
    ELSE 0

\* mutant: splice(index) without a count removes the rest of the list too
toggleBookmarkSpliceRest(b, paper, now) ==
    LET index == findIndex(b.items, paper.id) IN
    IF index > 0
    THEN JsArray(SubSeq(b.items, 1, index - 1))
    ELSE JsArray(Append(b.items,
                        [id |-> paper.id, title |-> paper.title, link |-> paper.link,
                         category |-> paper.category, addedAt |-> now]))

\* mutant: the record is pushed whether or not its id is bookmarked
toggleBookmarkAlwaysAdds(b, paper, now) ==
    JsArray(Append(b.items,
                   [id |-> paper.id, title |-> paper.title, link |-> paper.link,
                    category |-> paper.category, addedAt |-> now]))

\* the value of state.bookmarks after toggleBookmark(paper), now being
\* new Date().toISOString()
toggleBookmark(b, paper, now) ==
    LET index == findIndex(b.items, paper.id) IN
    IF index > 0
    THEN JsArray(RemoveAt(b.items, index))
    ELSE JsArray(Append(b.items,
                        [id |-> paper.id, title |-> paper.title, link |-> paper.link,
                         category |-> paper.category, addedAt |-> now]))

\* the value of state.bookmarks after removeBookmark(paperId)
removeBookmark(b, paperId) ==
    JsArray(SelectSeq(b.items, LAMBDA x : x.id # paperId))

\* the bookmark button of a card (lines 529-533).  The cards are those of
\* state.filteredPapers, in a grid updateUI shows only when nothing loads and
\* no message is set; a card exists only if isBookmarked did not raise.
ToggleBookmark(paper, now, accepted) ==
    /\ phase = "ready"
    /\ ~isLoading
    /\ error = NULL
    /\ bookmarks.type = "array"
    /\ paper \in Range(filteredPapers)
    /\ \/ findIndex(bookmarks.items, paper.id) > 0
       \/ Len(bookmarks.items) < MaxBookmarks
    /\ bookmarks' = toggleBookmark(bookmarks, paper, now)
    /\ storage' = saveBookmarks(storage, bookmarks', accepted)
    /\ call' = [fn |-> "toggleBookmark", id |-> paper.id, now |-> now,
                accepted |-> accepted]
    /\ UNCHANGED <<papers, filteredPapers, activeCategories, searchQuery, quickFilter,
                   dateRange, isLoading, error, phase, runs, settled, ret, relay>>

\* the remove button of a sidebar entry (lines 570-575): renderBookmarks
\* makes one per bookmark
RemoveBookmark(paperId, accepted) ==
    /\ phase = "ready"
    /\ bookmarks.type = "array"
    /\ \E x \in Range(bookmarks.items) : x.id = paperId
    /\ bookmarks' = removeBookmark(bookmarks, paperId)
    /\ storage' = saveBookmarks(storage, bookmarks', accepted)
    /\ call' = [fn |-> "removeBookmark", id |-> paperId, now |-> "",
                accepted |-> accepted]
    /\ UNCHANGED <<papers, filteredPapers, activeCategories, searchQuery, quickFilter,
                   dateRange, isLoading, error, phase, runs, settled, ret, relay>>

(***************************************************************************)
(* The relay (src/server.js).  A target is the text of the url parameter,  *)
(* the empty text when the parameter is missing.  The targets of the model *)
(* are absolute URLs with an authority, or text without a scheme; both     *)
(* new URL and https.get parse them the same way.                          *)
(***************************************************************************)
EXPORT == <<"e", "x", "p", "o", "r", "t", ".", "a", "r", "x", "i", "v", ".", "o", "r", "g">>
ARXIV == <<"a", "r", "x", "i", "v", ".", "o", "r", "g">>
RSSHOST == <<"r", "s", "s", ".", "a", "r", "x", "i", "v", ".", "o", "r", "g">>

\* ALLOWED_HOSTS (lines 30-34)
ALLOWED_HOSTS == << EXPORT, ARXIV, RSSHOST >>

\* the part of s after the last occurrence of the character c
RECURSIVE AfterLast(_, _)
AfterLast(s, c) ==
    LET i == IndexOf(s, <<c>>) IN
    IF i = 0 THEN s ELSE AfterLast(From(s, i + 1), c)

\* new URL(text): protocol and hostname, or a TypeError.  The authority runs
\* from "://" to the next "/"; the hostname is what follows its last "@",
\* up to a ":", in lower case.
parseURL(text) ==
    LET i == IndexOf(text, <<":", "/", "/">>) IN
    IF i <= 1 THEN [ok |-> FALSE, protocol |-> << >>, hostname |-> << >>]
    ELSE LET authority == TakeUntil(From(text, i + 3), "/")
             hostport == AfterLast(authority, "@")
         IN [ok |-> TRUE,
             protocol |-> toLowerCase(Before(text, i)) \o <<":">>,
             hostname |-> toLowerCase(TakeUntil(hostport, ":"))]

\* mutant: the target passes when the text of the URL names an allowed host
hostAllowedSubstring(targetUrl) ==
    \E k \in DOMAIN ALLOWED_HOSTS : Includes(targetUrl, ALLOWED_HOSTS[k])

\* ALLOWED_HOSTS.includes(targetParsed.hostname), for a target that parses
hostAllowed(targetUrl) ==
    \E k \in DOMAIN ALLOWED_HOSTS : ALLOWED_HOSTS[k] = parseURL(targetUrl).hostname

\* https.get(targetUrl, ...): the request is made to the host the URL names;
\* a protocol other than https: makes the call throw ERR_INVALID_PROTOCOL
httpsGet(targetUrl) ==
    LET u == parseURL(targetUrl) IN
    IF u.protocol = <<"h", "t", "t", "p", "s", ":">>
    THEN [thrown |-> FALSE, host |-> u.hostname]
    ELSE [thrown |-> TRUE, host |-> << >>]

\* what the request handler does before it returns (lines 40-97):
\* answered with a status, waiting for the upstream, or thrown
handle(method, targetUrl) ==
    IF method = "OPTIONS" THEN [kind |-> "answered", status |-> 204]
    ELSE IF targetUrl = << >> THEN [kind |-> "answered", status |-> 400]
    ELSE IF ~parseURL(targetUrl).ok THEN [kind |-> "answered", status |-> 400]
    ELSE IF ~hostAllowed(targetUrl) THEN [kind |-> "answered", status |-> 403]
    ELSE IF httpsGet(targetUrl).thrown THEN [kind |-> "thrown", status |-> 0]
    ELSE [kind |-> "upstream", status |-> 0]

\* a request arrives.  An exception that leaves the handler is not caught
\* anywhere: the process ends, and with it every connection.
Request(method, targetUrl) ==
    /\ relay.alive
    /\ Len(relay.requests) < MaxRequests
    /\ LET h == handle(method, targetUrl)
           req == [method |-> method, target |-> targetUrl,
                   waiting |-> h.kind = "upstream",
                   responses |-> IF h.kind = "answered" THEN <<h.status>> ELSE << >>]
       IN relay' = [alive |-> h.kind # "thrown",
                    requests |-> Append(relay.requests, req),
                    outbound |-> IF h.kind = "upstream"
                                 THEN Append(relay.outbound, httpsGet(targetUrl).host)
                                 ELSE relay.outbound]
    /\ UNCHANGED <<papers, filteredPapers, bookmarks, activeCategories, searchQuery,
                   quickFilter, dateRange, isLoading, error, storage, phase, runs,
                   settled, call, ret>>

\* the upstream answers request k (lines 97-104): status and body are forwarded
UpstreamResponse(k, status) ==
    /\ relay.alive
    /\ k \in DOMAIN relay.requests
    /\ relay.requests[k].waiting
    /\ relay' = [relay EXCEPT !.requests[k].waiting = FALSE,
                              !.requests[k].responses = Append(@, status)]
    /\ UNCHANGED <<papers, filteredPapers, bookmarks, activeCategories, searchQuery,
                   quickFilter, dateRange, isLoading, error, storage, phase, runs,
                   settled, call, ret>>

\* the upstream request of request k fails (lines 105-109)
UpstreamError(k) ==
    /\ relay.alive
    /\ k \in DOMAIN relay.requests
    /\ relay.requests[k].waiting
    /\ relay' = [relay EXCEPT !.requests[k].waiting = FALSE,
                              !.requests[k].responses = Append(@, 500)]
    /\ UNCHANGED <<papers, filteredPapers, bookmarks, activeCategories, searchQuery,
                   quickFilter, dateRange, isLoading, error, storage, phase, runs,
                   settled, call, ret>>

\* the requests the relay receives
Methods == {"GET", "OPTIONS", "POST"}

\* text without a scheme
T_NOURL == <<"n", "o", "t", " ", "a", " ", "u", "r", "l">>
\* a feed of CONFIG.feeds
T_FEED == <<"h", "t", "t", "p", "s", ":", "/", "/", "e", "x", "p", "o", "r", "t", ".", "a", "r", "x", "i", "v", ".", "o", "r", "g", "/", "r", "s", "s", "/", "c", "s", ".", "L", "G">>
\* upper case scheme and host
T_UPPER == <<"H", "T", "T", "P", "S", ":", "/", "/", "A", "R", "X", "I", "V", ".", "O", "R", "G", "/", "a", "b", "s", "/", "1">>
\* an allowed host with a port
T_PORT == <<"h", "t", "t", "p", "s", ":", "/", "/", "r", "s", "s", ".", "a", "r", "x", "i", "v", ".", "o", "r", "g", ":", "8", "4", "4", "3", "/", "x">>
\* an allowed host, scheme http
T_HTTP == <<"h", "t", "t", "p", ":", "/", "/", "e", "x", "p", "o", "r", "t", ".", "a", "r", "x", "i", "v", ".", "o", "r", "g", "/", "a", "p", "i", "/", "q", "u", "e", "r", "y">>
\* another host
T_EVIL == <<"h", "t", "t", "p", "s", ":", "/", "/", "e", "v", "i", "l", ".", "e", "x", "a", "m", "p", "l", "e", "/", "x">>
\* an allowed host as user name
T_USERINFO == <<"h", "t", "t", "p", "s", ":", "/", "/", "a", "r", "x", "i", "v", ".", "o", "r", "g", "@", "e", "v", "i", "l", ".", "e", "x", "a", "m", "p", "l", "e", "/">>
\* an allowed host in the path
T_PATH == <<"h", "t", "t", "p", "s", ":", "/", "/", "e", "v", "i", "l", ".", "e", "x", "a", "m", "p", "l", "e", "/", "a", "r", "x", "i", "v", ".", "o", "r", "g">>

Targets ==
    { << >>,
      T_NOURL,
      T_FEED,
      T_UPPER,
      T_PORT,
      T_HTTP,
      T_EVIL,
      T_USERINFO,
      T_PATH }

UpstreamStatuses == {200, 404}

(***************************************************************************)
(* Specifications                                                          *)
(***************************************************************************)
Init ==
    /\ InitApp
    /\ storage \in Slots
    /\ call = NoCall
    /\ ret = NoRet

Next ==
    \/ init
    \/ Refresh
    \/ \E value \in DateRanges : DateRangeChange(value)
    \/ \E category \in Range(Feeds), checked \in BOOLEAN :
           CategoryChange(category, checked)
    \/ \E r \in 1..MaxInFlight, i \in 1..NumFeeds : Settle(r, i)

Spec == Init /\ [][Next]_vars

\* the records of the collections the filter events are run on
FilterPool(f) ==
    IF f = CS_LG THEN
        { [id |-> <<"1">>, title |-> GPT, link |-> HTTPS \o <<"x", "/", "1">>,
           abstract |-> <<"a">>, authors |-> <<"A", "n", "n">>, category |-> CS_LG],
          [id |-> <<"2">>, title |-> <<"L", "a", "n", "g", "u", "a", "g", "e">>,
           link |-> HTTPS \o <<"x", "/", "2">>,
           abstract |-> <<"M", "o", "d", "e", "l">>, authors |-> <<"B", "o">>,
           category |-> CS_LG] }
    ELSE IF f = CS_CL THEN
        { [id |-> <<"3">>, title |-> <<"R", "A", "G">>,
           link |-> HTTPS \o <<"x", "/", "3">>,
           abstract |-> << >>, authors |-> <<"B", "o">>, category |-> CS_CL],
          [id |-> <<"4">>, title |-> <<"C", "a", "t", "s">>,
           link |-> HTTPS \o <<"x", "/", "4">>,
           abstract |-> <<"b">>, authors |-> <<"A", "n", "n">>, category |-> CS_CL] }
    ELSE {}

\* what a source may have returned: its records, each once, in any order
FilterLists(f) ==
    { l \in SeqsUpTo(FilterPool(f), Cardinality(FilterPool(f))) :
        \A i, j \in DOMAIN l : i # j => l[i] # l[j] }

\* what the search field may hold
SearchInputs == { << >>, <<" ", "g", "p", "t">>, <<"A", "N", "N">> }

\* the page after a snapshot cycle that found records, no cycle in flight
InitFilter ==
    /\ \E results \in [DOMAIN Feeds -> UNION {FilterLists(f) : f \in Range(Feeds)}] :
         /\ \A i \in DOMAIN Feeds : results[i] \in FilterLists(Feeds[i])
         /\ uniquePapers(results) # << >>
         /\ papers = uniquePapers(results)
         /\ settled = [mode |-> "today", sources |-> Feeds, results |-> results,
                       day |-> << >>, raised |-> FALSE]
    /\ filteredPapers = applyFilters(papers, Feeds, << >>, "all")
    /\ bookmarks = JsArray(<< >>)
    /\ activeCategories = Feeds
    /\ searchQuery = << >>
    /\ quickFilter = "all"
    /\ dateRange = "today"
    /\ isLoading = FALSE
    /\ error = NULL
    /\ storage = SlotAbsent
    /\ phase = "ready"
    /\ runs = << >>
    /\ relay = RelayStarted
    /\ call = NoCall
    /\ ret = NoRet

NextFilter ==
    \/ \E category \in Range(Feeds), checked \in BOOLEAN :
           CategoryChange(category, checked)
    \/ \E value \in SearchInputs : SearchInput(value)
    \/ ClearSearch
    \/ \E key \in QuickFilterKeys : QuickFilterClick(key)

SpecFilter == InitFilter /\ [][NextFilter]_vars

\* a bookmark saved by an earlier visit, of a paper no feed lists any more
OldBookmark ==
    [id |-> <<"0">>, title |-> <<"O", "l", "d">>, link |-> HTTPS \o <<"x", "/", "0">>,
     category |-> CS_LG, addedAt |-> "t0"]

\* contents of the slot when the page loads, for the bookmark operations
StoreSlots == {SlotAbsent, SlotGarbage, SlotJson(JsArray(<<OldBookmark>>))}

\* new Date().toISOString() at the time of a click
Times == {"t1", "t2"}

\* the filter events next to the fetch pipeline
StoreQueries == { <<" ", "g", "p", "t">> }
StoreKeys == {"all", "rag"}

InitStore ==
    /\ InitApp
    /\ storage \in StoreSlots
    /\ call = NoCall
    /\ ret = NoRet

\* the first cycle of the page and the bookmark buttons
NextStore ==
    \/ init
    \/ \E checked \in BOOLEAN : CategoryChange(Feeds[1], checked)
    \/ \E r \in 1..MaxInFlight, i \in 1..NumFeeds : Settle(r, i)
    \/ \E paper \in Range(filteredPapers), now \in Times, accepted \in BOOLEAN :
           ToggleBookmark(paper, now, accepted)
    \/ \E x \in Range(bookmarks.items), accepted \in BOOLEAN :
           RemoveBookmark(x.id, accepted)

SpecStore == InitStore /\ [][NextStore]_vars

\* the fetch pipeline and the filter events on a page that holds a bookmark;
\* the user lets a cycle end before starting the next one
PageSlots == {SlotJson(JsArray(<<OldBookmark>>)), SlotJson(JsObjectLength0)}

InitPage ==
    /\ InitApp
    /\ storage \in PageSlots
    /\ call = NoCall
    /\ ret = NoRet

NextPage ==
    \/ init
    \/ runs = << >> /\ Refresh
    \/ \E value \in DateRanges : runs = << >> /\ DateRangeChange(value)
    \/ \E category \in Range(Feeds), checked \in BOOLEAN :
           CategoryChange(category, checked)
    \/ \E value \in StoreQueries : SearchInput(value)
    \/ ClearSearch
    \/ \E key \in StoreKeys : QuickFilterClick(key)
    \/ \E r \in 1..MaxInFlight, i \in 1..NumFeeds : Settle(r, i)
    \/ \E paper \in Range(filteredPapers) : ToggleBookmark(paper, "t1", TRUE)

SpecPage == InitPage /\ [][NextPage]_vars

\* the fetch pipeline, every transport request settling eventually
NextLive ==
    \/ init
    \/ Refresh
    \/ \E value \in DateRanges : DateRangeChange(value)
    \/ \E r \in 1..MaxInFlight, i \in 1..NumFeeds : Settle(r, i)

SpecLive ==
    /\ Init
    /\ [][NextLive]_vars
    /\ WF_vars(\E r \in 1..MaxInFlight, i \in 1..NumFeeds : Settle(r, i))

\* the relay alone
InitRelay ==
    /\ InitApp
    /\ storage = SlotAbsent
    /\ call = NoCall
    /\ ret = NoRet

NextRelay ==
    \/ \E method \in Methods, targetUrl \in Targets : Request(method, targetUrl)
    \/ \E k \in 1..MaxRequests, status \in UpstreamStatuses :
           UpstreamResponse(k, status)
    \/ \E k \in 1..MaxRequests : UpstreamError(k)

SpecRelay == InitRelay /\ [][NextRelay]_vars

\* the parsers on every bounded document
InitParse ==
    /\ InitApp
    /\ storage = SlotAbsent
    /\ call \in ParseCalls
    /\ ret = NoRet

NextParse == ParseFeedCall \/ ParseApiCall

SpecParse == InitParse /\ [][NextParse]_vars

\* the transport chain on every vector of proxy outcomes
InitChain ==
    /\ InitApp
    /\ storage = SlotAbsent
    /\ call \in ChainCalls
    /\ ret = NoRet

NextChain == FetchFeedCall \/ FetchApiCall

SpecChain == InitChain /\ [][NextChain]_vars

(***************************************************************************)
(* Properties                                                              *)
(***************************************************************************)

\* the records of s whose id no earlier record of s has
FirstOccurrences(s) ==
    LET first(i) == \A j \in 1..(i - 1) : s[j].id # s[i].id
        F[i \in 0..Len(s)] ==
            IF i = 0 THEN << >>
            ELSE IF first(i) THEN Append(F[i - 1], s[i]) ELSE F[i - 1]
    IN F[Len(s)]

\* the position of a category in CONFIG.feeds
FeedIndex(c) == CHOOSE i \in DOMAIN ConfigFeeds : ConfigFeeds[i] = c

\* a step in which a cycle of fetchAllFeeds ends: a cycle leaves runs, or
\* a cycle with nothing to request starts and ends at once
CompletionStep ==
    \/ Len(runs') < Len(runs)
    \/ /\ phase = "ready"
       /\ runs' = runs
       /\ <<papers, error, isLoading, settled, dateRange>>'
            # <<papers, error, isLoading, settled, dateRange>>

\* cycle r ends in this step: it was waiting for exactly one source
Completes(r) ==
    /\ r \in DOMAIN runs
    /\ runs' = RemoveAt(runs, r)
    /\ Cardinality({k \in DOMAIN runs[r].done : ~runs[r].done[k]}) = 1
    /\ settled'.mode = runs[r].mode
    /\ settled'.sources = runs[r].sources
    /\ \A k \in DOMAIN runs[r].done :
           runs[r].done[k] => settled'.results[k] = runs[r].results[k]

\* C1: state.papers never holds two records with the same id, and of the
\* records with one id that the sources of a cycle return, the one kept is
\* the first in the concatenation of the per-source results.
C1_DedupFirstWins ==
    /\ \A i, j \in DOMAIN papers : i # j => papers[i].id # papers[j].id
    /\ settled.mode # "none" =>
         LET all == Flat(settled.results) IN
         /\ {p.id : p \in Range(papers)} = {p.id : p \in Range(all)}
         /\ \A k \in DOMAIN papers :
                LET firstAt == CHOOSE i \in DOMAIN all :
                                 /\ all[i].id = papers[k].id
                                 /\ \A j \in 1..(i - 1) : all[j].id # papers[k].id
                IN papers[k] = all[firstAt]

\* two sources of the cycle returned a record with the same id
C1_Witness ==
    /\ papers # << >>
    /\ \E a, b \in DOMAIN settled.results :
         /\ a < b
         /\ \E p \in Range(settled.results[a]), q \in Range(settled.results[b]) :
              p.id = q.id /\ p # q

\* a proxy outcome the chain must skip
Skipped(fn, target, out) ==
    \/ out.kind \in {"reject", "notok", "textfail"}
    \/ /\ fn = "fetchFeed"
       /\ parseFeed(out.doc, target) = << >>
    \/ /\ fn = "fetchFromArxivAPI"
       /\ parseArxivAPIResponse(out.doc, target) = << >>

ParsedBy(fn, target, out) ==
    IF fn = "fetchFeed" THEN parseFeed(out.doc, target)
    ELSE parseArxivAPIResponse(out.doc, target)

\* C2: the chain requests the proxies in their static order, each at most
\* once; every requested proxy but the last was one to skip (rejected, not
\* ok, body not readable, no record); the chain returns the records of the
\* first proxy not to skip and requests none after it.
C2_ChainOrder ==
    ret.done =>
        LET n == Len(ret.value.requested)
            good == {k \in 1..NumProxies : ~Skipped(call.fn, call.target, call.resp[k])}
        IN /\ ret.value.requested = SubSeq(CorsProxies, 1, n)
           /\ \A k \in 1..(n - 1) : k \notin good
           /\ good # {} =>
                /\ n \in good
                /\ ret.value.papers = ParsedBy(call.fn, call.target, call.resp[n])
                /\ ret.value.papers # << >>
           /\ good = {} => n = NumProxies

\* the first proxy returned a body without records, the second one records
C2_Witness ==
    /\ ret.done
    /\ call.resp[1] = Ok(EmptyDoc)
    /\ Len(ret.value.requested) = 2
    /\ ret.value.papers # << >>

\* C3: when every proxy fails for a source, the chain returns the empty
\* result and does not raise.
C3_ExhaustedIsEmpty ==
    ret.done =>
        /\ ~ret.value.raised
        /\ (\A k \in 1..NumProxies : Skipped(call.fn, call.target, call.resp[k]))
             => ret.value.papers = << >>

\* every proxy failed, in different ways
C3_Witness ==
    /\ ret.done
    /\ \A k \in 1..NumProxies : Skipped(call.fn, call.target, call.resp[k])
    /\ call.resp[1].kind = "reject"
    /\ call.resp[NumProxies].kind # "reject"
    /\ ret.value.papers = << >>

\* C4: the collection is written only when the last fetch of a cycle has
\* settled; a cycle leaves only then; the collection written is the
\* deduplicated concatenation of what the sources returned, the exhausted
\* ones adding nothing; with a bookmark list that can be rendered, no
\* failure message is set.
C4_PartialFailure ==
    [][ /\ papers' # papers =>
              \/ \E r \in DOMAIN runs : Completes(r)
              \/ runs' = runs /\ settled'.sources = << >>
        /\ Len(runs') < Len(runs) =>
              /\ \E r \in DOMAIN runs : Completes(r)
              /\ papers' = FirstOccurrences(Flat(
                    SelectSeq(settled'.results, LAMBDA res : res # << >>)))
              /\ bookmarks.type = "array" => error' # FailedMsg
      ]_vars

\* a cycle ended in which one source was exhausted and another returned records
C4_Witness ==
    /\ papers # << >>
    /\ error = NULL
    /\ \E a, b \in DOMAIN settled.results :
         settled.results[a] = << >> /\ settled.results[b] # << >>

\* C5: when a cycle raises in the try block, it ends with the failure
\* message and state.papers is the collection held before.
C5_PreviousKept ==
    [][ (CompletionStep /\ settled'.raised) =>
            (error' = FailedMsg /\ papers' = papers) ]_vars

\* C6: state.papers is the empty initial collection or the whole
\* deduplicated merge of the cycle whose fetches settled last.
C6_LastSettledWins ==
    papers = IF settled.mode = "none" THEN << >>
             ELSE FirstOccurrences(Flat(settled.results))

\* cycles overlapped: the one that settled last is not the one started last
C6_Witness ==
    /\ runs = << >>
    /\ settled.mode \notin {"none", dateRange}
    /\ papers # << >>

\* C7: a cycle started in snapshot mode requests every configured feed; a
\* cycle started in a ranged mode requests the categories active then.
C7_RequestedSources ==
    [][ /\ Len(runs') > Len(runs) =>
              LET new == runs'[Len(runs')] IN
              /\ new.mode = dateRange'
              /\ new.mode = "today" => new.sources = Feeds
              /\ new.mode # "today" =>
                    /\ Range(new.sources) = Range(activeCategories)
                    /\ Len(new.sources) = Cardinality(Range(activeCategories))
        /\ (phase = "ready" /\ runs' = runs /\ settled' # settled) =>
              /\ dateRange' # "today"
              /\ activeCategories = << >>
      ]_vars

\* a snapshot cycle requests every feed next to a ranged cycle that does not
C7_Witness ==
    /\ Len(activeCategories) < NumFeeds
    /\ \E a, b \in DOMAIN runs :
         /\ runs[a].mode # "today" /\ Len(runs[a].sources) < NumFeeds
         /\ a < b
         /\ runs[b].mode = "today" /\ runs[b].sources = Feeds

\* C8: in both modes the per-source results are concatenated in the order of
\* CONFIG.feeds, whatever category toggles came before.
C8_ConfigOrder ==
    LET all == Flat(settled.results) IN
    \A i, j \in DOMAIN all :
        i < j => FeedIndex(all[i].category) <= FeedIndex(all[j].category)

\* C9: a cycle that ends with an empty collection sets the weekend message
\* (snapshot mode, Saturday or Sunday), the unavailable message (snapshot
\* mode, another day) or the date range message (ranged mode), by the mode
\* state.dateRange holds then; a cycle that ends with a collection it can
\* render sets no message.
C9_EmptyMessage ==
    [][ CompletionStep =>
          /\ papers' = << >> =>
               error' = IF dateRange' = "today"
                        THEN IF settled'.day \in {<<0>>, <<6>>}
                             THEN WeekendMsg ELSE UnavailableMsg
                        ELSE DateRangeMsg
          /\ (papers' # << >> /\ bookmarks.type = "array") => error' = error
      ]_vars

\* a snapshot cycle ended empty on a Sunday
C9_Witness ==
    /\ papers = << >>
    /\ settled.mode = "today"
    /\ settled.day = <<0>>
    /\ error = WeekendMsg

\* C10: no record a parser returns has an empty title or an empty link.
C10_NoEmptyTitleOrLink ==
    ret.done =>
        \A k \in DOMAIN ret.value :
            ret.value[k].title # << >> /\ ret.value[k].link # << >>

\* the elements of s at the positions in keep, in the order of s
KeptAt(s, keep) ==
    [k \in 1..Cardinality(keep) |->
        s[CHOOSE i \in keep : Cardinality({j \in keep : j < i}) = k - 1]]

\* text contains kw at some position, letter case aside
ContainsNoCase(text, kw) ==
    \E i \in 1..(Len(text) + 1) :
        /\ i + Len(kw) - 1 <= Len(text)
        /\ \A k \in 1..Len(kw) : LowerChar(text[i + k - 1]) = LowerChar(kw[k])

\* the positions of state.papers that pass the category and search stages
PassesStages ==
    { i \in DOMAIN papers :
        /\ papers[i].category \in Range(activeCategories)
        /\ \/ searchQuery = << >>
           \/ ContainsNoCase(papers[i].title, searchQuery)
           \/ ContainsNoCase(papers[i].abstract, searchQuery)
           \/ ContainsNoCase(papers[i].authors, searchQuery) }

\* C11: with an empty search query and the quick filter 'all', filteredPapers
\* is exactly the records of state.papers whose category is active, in the
\* order they have in state.papers.
C11_CategoryOnly ==
    (searchQuery = << >> /\ quickFilter = "all") =>
        filteredPapers =
            KeptAt(papers, {i \in DOMAIN papers :
                              papers[i].category \in Range(activeCategories)})

\* one category is active: several records are kept and others are dropped
C11_Witness ==
    /\ searchQuery = << >>
    /\ quickFilter = "all"
    /\ Len(activeCategories) = 1
    /\ Len(filteredPapers) >= 2
    /\ Len(filteredPapers) < Len(papers)

\* C12: with a quick filter other than 'all', filteredPapers is exactly the
\* records passing the category and search stages whose title and abstract,
\* joined by a blank and compared without regard to letter case, contain a
\* keyword of the selected group, in the order they have in state.papers.
C12_QuickFilter ==
    quickFilter # "all" =>
        filteredPapers =
            KeptAt(papers,
                   {i \in PassesStages :
                      \E k \in DOMAIN QUICK_FILTERS(quickFilter) :
                         ContainsNoCase(papers[i].title \o <<" ">> \o papers[i].abstract,
                                        QUICK_FILTERS(quickFilter)[k])})

\* 'llm' keeps the record titled GPT and drops a record without any keyword
C12_Witness ==
    /\ quickFilter = "llm"
    /\ \E p \in Range(filteredPapers) : p.title = GPT
    /\ \E i \in PassesStages : papers[i] \notin Range(filteredPapers)

\* C13: a filter event changes at most its own field of the filter state and
\* leaves state.papers, state.dateRange, the bookmarks and the slot alone;
\* applyFilters invoked once more on the state it left changes nothing.
C13_FilterFrame ==
    [][ LET after == [papers |-> papers', filteredPapers |-> filteredPapers',
                      bookmarks |-> bookmarks',
                      activeCategories |-> activeCategories',
                      searchQuery |-> searchQuery', quickFilter |-> quickFilter',
                      dateRange |-> dateRange']
        IN /\ papers' = papers
           /\ dateRange' = dateRange
           /\ bookmarks' = bookmarks
           /\ storage' = storage
           /\ activeCategories' # activeCategories =>
                 (searchQuery' = searchQuery /\ quickFilter' = quickFilter)
           /\ searchQuery' # searchQuery => quickFilter' = quickFilter
           /\ applyFiltersOn(after) = after
      ]_vars

\* the three stages are all in effect and keep some records, not all
C13_Witness ==
    /\ searchQuery # << >>
    /\ quickFilter # "all"
    /\ Len(activeCategories) < NumFeeds
    /\ filteredPapers # << >>
    /\ Len(filteredPapers) < Len(papers)

\* C14: whatever the slot holds when the page loads, startup completes and
\* state.bookmarks is a list.
C14_SlotTolerated ==
    /\ phase # "crashed"
    /\ phase = "ready" => bookmarks.type = "array"

\* C15: when a bookmark operation has changed state.bookmarks, the slot holds
\* the serialization of the new list, whether or not the write was taken.
C15_WriteThrough ==
    [][ (phase = "ready" /\ bookmarks' # bookmarks) =>
            storage' = SlotJson(bookmarks') ]_vars

\* the bookmark toggleBookmark makes of a paper
Projection(p, now) ==
    [id |-> p.id, title |-> p.title, link |-> p.link, category |-> p.category,
     addedAt |-> now]

\* C16: when the write is taken, bookmarking a paper that is not bookmarked
\* makes a reload yield the former bookmarks followed by the projection of
\* the paper; removing a bookmarked id leaves, in memory and after a reload,
\* the former bookmarks without the entries of that id, the others as they
\* were.
C16_RoundTrip ==
    [][ (phase = "ready" /\ bookmarks' # bookmarks /\ call'.accepted) =>
          LET before == bookmarks.items
              after == bookmarks'.items
              reloaded == loadBookmarks(storage').items
              id == call'.id
          IN IF \A x \in Range(before) : x.id # id
             THEN /\ call'.fn = "toggleBookmark"
                  /\ \E p \in Range(filteredPapers) :
                        /\ p.id = id
                        /\ reloaded = Append(before, Projection(p, call'.now))
                  /\ after = reloaded
             ELSE /\ \A x \in Range(after) \cup Range(reloaded) : x.id # id
                  /\ after = KeptAt(before, {i \in DOMAIN before : before[i].id # id})
                  /\ reloaded = after ]_vars

\* a paper was bookmarked next to a loaded bookmark and then removed again
C16_Witness ==
    /\ call.fn = "removeBookmark"
    /\ call.accepted
    /\ call.id # OldBookmark.id
    /\ bookmarks = JsArray(<<OldBookmark>>)
    /\ loadBookmarks(storage) = bookmarks

\* C19: a step of the fetch pipeline or of a filter event, one that changes
\* the collection, the filtered list, the filter state, the messages or the
\* cycles in flight, leaves state.bookmarks and the slot as they were.
C19_BookmarksUntouched ==
    [][ (/\ phase = "ready"
         /\ <<papers, filteredPapers, activeCategories, searchQuery, quickFilter,
              dateRange, isLoading, error, runs, settled>>'
              # <<papers, filteredPapers, activeCategories, searchQuery, quickFilter,
                  dateRange, isLoading, error, runs, settled>>)
        => (bookmarks' = bookmarks /\ storage' = storage) ]_vars

\* a paper bookmarked on this page is gone from the collection after a later
\* cycle, and its bookmark is still there
C19_Witness ==
    /\ runs = << >>
    /\ \E x \in Range(bookmarks.items) :
         /\ x.addedAt = "t1"
         /\ \A q \in Range(papers) : q.id # x.id
         /\ x \in Range(loadBookmarks(storage).items)

\* C17: every host the relay has sent an upstream request to is one of
\* ALLOWED_HOSTS, and there are no more upstream requests than requests
\* whose target parses to such a host.
C17_AllowListed ==
    /\ \A k \in DOMAIN relay.outbound :
          relay.outbound[k] \in {EXPORT, ARXIV, RSSHOST}
    /\ Len(relay.outbound) <=
          Cardinality({k \in DOMAIN relay.requests :
                         /\ relay.requests[k].method # "OPTIONS"
                         /\ parseURL(relay.requests[k].target).ok
                         /\ parseURL(relay.requests[k].target).hostname
                              \in {EXPORT, ARXIV, RSSHOST}})

\* a target naming an allowed host only as user name was refused, another
\* target was forwarded
C17_Witness ==
    /\ \E k \in DOMAIN relay.requests :
          /\ relay.requests[k].target = T_USERINFO
          /\ relay.requests[k].responses = <<403>>
    /\ relay.outbound # << >>

\* C18: the relay keeps serving, and every request it has handled has one
\* response or waits for the upstream: 204 for OPTIONS, 400 without a
\* target that parses, 403 for a host not allowed, else what the upstream
\* answered, 500 when the upstream request failed.
C18_OneResponse ==
    /\ relay.alive
    /\ \A k \in DOMAIN relay.requests :
          LET req == relay.requests[k]
              u == parseURL(req.target)
          IN /\ Len(req.responses) = IF req.waiting THEN 0 ELSE 1
             /\ req.method = "OPTIONS" => req.responses = <<204>>
             /\ (req.method # "OPTIONS" /\ ~u.ok) => req.responses = <<400>>
             /\ (req.method # "OPTIONS" /\ u.ok
                   /\ u.hostname \notin {EXPORT, ARXIV, RSSHOST})
                  => req.responses = <<403>>
             /\ (req.method # "OPTIONS" /\ u.ok /\ ~req.waiting
                   /\ u.hostname \in {EXPORT, ARXIV, RSSHOST})
                  => req.responses[1] \in UpstreamStatuses \cup {500}

\* C20: the link of a record of the structured-query parser is the pdf link
\* of its entry, else the alternate link, else the id, with http:// replaced
\* by https://.
C20_LinkPreference ==
    (ret.done /\ call.fn = "parseArxivAPIResponse") =>
        LET entries == call.doc.entries
            kept == KeptAt(entries, {i \in DOMAIN entries : apiEntryKept(entries[i])})
            preferred(e) == IF e.pdfHref # << >> THEN e.pdfHref
                            ELSE IF e.altHref # << >> THEN e.altHref
                            ELSE e.id
        IN /\ Len(ret.value) = Len(kept)
           /\ \A k \in DOMAIN kept :
                 ret.value[k].link = ReplaceFirst(preferred(kept[k]), HTTP, HTTPS)

\* C21: the link of every record a parser returns has the scheme https.
C21_SecureLink ==
    ret.done =>
        \A k \in DOMAIN ret.value : StartsWithAt(ret.value[k].link, HTTPS, 1)

\* C22: a cycle that ends with an empty collection sets the message of the
\* mode it started in: the weekend or the unavailable message for a
\* snapshot cycle, the date range message for a ranged cycle, also when
\* state.dateRange was changed while it was in flight.
C22_StartModeMessage ==
    [][ (CompletionStep /\ papers' = << >>) =>
            IF settled'.mode = "today"
            THEN error' \in {WeekendMsg, UnavailableMsg}
            ELSE error' = DateRangeMsg ]_vars

\* C26: state.isLoading is true whenever a cycle is in flight.
C26_LoadingWhileInFlight ==
    runs # << >> => isLoading

\* C27: with no cycle in flight and the cycle that wrote the collection
\* ended without exception, a message is set only if the collection is empty.
C27_NoMessageOverPapers ==
    (phase = "ready" /\ runs = << >> /\ settled.mode # "none" /\ ~settled.raised)
        => (error # NULL => papers = << >>)

\* C28: with no cycle in flight, the collection was written by a cycle whose
\* mode is the current state.dateRange.
C28_ModeOfCollection ==
    (phase = "ready" /\ runs = << >> /\ settled.mode # "none")
        => settled.mode = dateRange

\* C23: state.filteredPapers is the records of state.papers that pass the
\* category stage, the search stage when the query is not empty and the quick
\* filter stage when the key is not 'all', in the order of state.papers.
C23_FilteredInSync ==
    filteredPapers =
        KeptAt(papers,
               {i \in PassesStages :
                  \/ quickFilter = "all"
                  \/ \E k \in DOMAIN QUICK_FILTERS(quickFilter) :
                        ContainsNoCase(papers[i].title \o <<" ">> \o papers[i].abstract,
                                       QUICK_FILTERS(quickFilter)[k])})

\* a cycle has ended under a narrowed filter state that keeps some records
C23_Witness ==
    /\ settled.mode # "none"
    /\ ~isLoading
    /\ searchQuery # << >> \/ quickFilter # "all"
    /\ Len(activeCategories) < NumFeeds
    /\ filteredPapers # << >>
    /\ Len(filteredPapers) < Len(papers)

\* C24: a cycle that ends leaves isLoading false and a collection with
\* records or a message; and once no further cycle is started, the page
\* comes to rest with no cycle in flight, isLoading false and a collection
\* with records or a message.
C24_EveryRunFinishes ==
    /\ [][ CompletionStep =>
              (~isLoading' /\ (papers' # << >> \/ error' # NULL)) ]_vars
    /\ <>[][Len(runs') <= Len(runs)]_vars =>
          <>[](phase = "ready" =>
                 (runs = << >> /\ ~isLoading /\ (papers # << >> \/ error # NULL)))

\* every source of the last cycle was exhausted and the page shows a message
C24_Witness ==
    /\ phase = "ready"
    /\ runs = << >>
    /\ ~isLoading
    /\ settled.mode # "none"
    /\ \A k \in DOMAIN settled.results : settled.results[k] = << >>
    /\ error # NULL

\* C25: state.bookmarks never holds two entries with the same id.
C25_UniqueIds ==
    bookmarks.type = "array" =>
        \A i, j \in DOMAIN bookmarks.items :
            i # j => bookmarks.items[i].id # bookmarks.items[j].id

\* the bookmark button of a bookmarked paper was clicked: its entry is gone
C25_Witness ==
    /\ call.fn = "toggleBookmark"
    /\ bookmarks.items # << >>
    /\ \A x \in Range(bookmarks.items) : x.id # call.id

====
